---- MODULE Spec2Model ----
(***************************************************************************)
(* octopulse: the poll loop and its watermark, the pull-request timeline   *)
(* aggregator, the pull-request state classification and the avatar cache. *)
(*                                                                         *)
(* Eight specifications share the definitions below:                       *)
(*   Spec         the poll loop (GithubNotificationPoller::run) with the   *)
(*                watermark file and NotificationProcessor's per-item loop *)
(*   SpecAgg      GithubClient::get_pr_details on drawn upstream answers   *)
(*   SpecClassify the pull-request snapshot's state and author             *)
(*   SpecCache    AvatarCache::ensure_avatar against the cache directory   *)
(*                and the system clock                                     *)
(*   SpecProc     one notification through process_notification           *)
(*   SpecTwice    the same cycle run twice against the same upstream       *)
(*   SpecPages    two cycles against an upstream that lists page by page   *)
(*   SpecFlight   ensure_avatar calls that overlap                         *)
(* Each specification leaves the variables of the others at their idle     *)
(* values.                                                                 *)
(***************************************************************************)
EXTENDS Integers, Sequences, FiniteSets, TLC

VARIABLES
    \* ---- poll loop (Spec)
    pc,             \* position of run: "fetch", "process", "sleep", "panicked"
    file,           \* last_seen.txt: None (no file) or Some(content)
    last_seen,      \* run's local last_seen: Option<DateTime<Utc>>
    listing,        \* result of the cycle's listing call: "none", "ok", "err"
    notifications,  \* items of the listed page: sequence of [updated_at]
    idx,            \* position of the for loop of process_notifications
    outcomes,       \* result of each attempted notification of this cycle
    written,        \* what the cycle's write_last_seen_timestamp call did
    file0,          \* last_seen.txt as the cycle found it
    log,            \* the latest attempt: [index, notification, since, err, fetches], or None
    \* ---- aggregator (SpecAgg)
    aggPc,          \* "idle", "input", "done"
    aggSince,       \* the since argument
    aggUp,          \* the upstream answers: [pr, rc, ic, rv]
    aggOut,         \* the Result<PullRequestDetails> returned
    \* ---- classification (SpecClassify)
    clsPc,          \* "idle", "input", "done"
    clsPr,          \* the PullRequest snapshot
    clsOut,         \* [state, author]
    \* ---- avatar cache (SpecCache)
    cachePc,        \* "idle", "run", "flight"
    cache,          \* cache directory: login -> [exists, mtime, complete]
    clock,          \* system time, seconds
    ticks,          \* number of clock advances so far
    lastCall,       \* the latest ensure_avatar call and the one before it for its login
    lastOf,         \* per login, its latest ensure_avatar call
    inflight,       \* per caller, the login whose download it is in, or None
    \* ---- one notification through the processor (SpecProc)
    procPc,         \* "idle", "input", "done"
    procIn,         \* [notification, since, up, dir, net]
    procOut,        \* what process_notification did
    \* ---- the same cycle run twice (SpecTwice)
    twPc,           \* "idle", "run"
    twWorld,        \* what the upstream holds: the notifications and their pull requests
    twFile,         \* last_seen.txt
    twRuns,         \* the cycles run so far: [since, lists, written, after]
    \* ---- the listing, page by page (SpecPages)
    pgPc,           \* "idle", "run"
    pgHeld,         \* the notifications the upstream holds, in the order it lists them
    pgFile,         \* last_seen.txt
    pgRuns          \* the cycles run so far: [since, listed, written, after]

pollVars ==
    <<pc, file, last_seen, listing, notifications, idx, outcomes, written, file0,
      log>>
aggVars == <<aggPc, aggSince, aggUp, aggOut>>
clsVars == <<clsPc, clsPr, clsOut>>
cacheVars == <<cachePc, cache, clock, ticks, lastCall, lastOf, inflight>>
procVars == <<procPc, procIn, procOut>>
twVars == <<twPc, twWorld, twFile, twRuns>>
pgVars == <<pgPc, pgHeld, pgFile, pgRuns>>
vars == <<pollVars, aggVars, clsVars, cacheVars, procVars, twVars, pgVars>>

(***************************************************************************)
(* Bounds of the model.                                                    *)
(***************************************************************************)
\* timestamps of upstream items (updated_at, created_at, submitted_at) are 0..MaxTime
MaxTime == 3
\* most notifications on a listed page
MaxNotifs == 2
\* most items over the three comment collections of one pull request
MaxItems == 3
\* most clock advances in SpecCache
MaxTicks == 3
\* callers of ensure_avatar at one time in SpecFlight
MaxCallers == 2

(***************************************************************************)
(* Option<T> and Result<T, E>.                                             *)
(***************************************************************************)
None == << >>
Some(x) == <<x>>
IsSome(o) == o # << >>
Unwrap(o) == o[1]

Err(e) == [ok |-> FALSE, err |-> e]
Ok(v) == [ok |-> TRUE, val |-> v]

\* Option<DateTime>'s derived order: None is below every Some
OptLeq(a, b) == IF a = None THEN TRUE ELSE IF b = None THEN FALSE ELSE a[1] <= b[1]

Times == 0..MaxTime
OptTimes == {None} \cup {Some(t) : t \in Times}

(***************************************************************************)
(* Text: a string is a sequence of one-character strings.                  *)
(***************************************************************************)
DigitChars == <<"0", "1", "2", "3", "4", "5", "6", "7", "8", "9">>
IsDigit(c) == \E i \in 1..10 : DigitChars[i] = c
DigitVal(c) == (CHOOSE i \in 1..10 : DigitChars[i] = c) - 1
IsSpace(c) == c \in {" ", "\n", "\t"}

RECURSIVE ToDecimal(_)
ToDecimal(n) ==
    IF n < 10 THEN <<DigitChars[n + 1]>>
    ELSE Append(ToDecimal(n \div 10), DigitChars[(n % 10) + 1])

RECURSIVE FromDecimal(_)
FromDecimal(s) ==
    IF s = << >> THEN 0
    ELSE 10 * FromDecimal(SubSeq(s, 1, Len(s) - 1)) + DigitVal(s[Len(s)])

RECURSIVE TrimStart(_)
TrimStart(s) ==
    IF s # << >> /\ IsSpace(s[1]) THEN TrimStart(Tail(s)) ELSE s

RECURSIVE TrimEnd(_)
TrimEnd(s) ==
    IF s # << >> /\ IsSpace(s[Len(s)]) THEN TrimEnd(SubSeq(s, 1, Len(s) - 1)) ELSE s

Trim(s) == TrimEnd(TrimStart(s))

(***************************************************************************)
(* Watermark store (TimestampManager).  A timestamp is a number of seconds;*)
(* its RFC 3339 text is rendered here as the decimal digits of that number.*)
(***************************************************************************)
ToRfc3339(ts) == ToDecimal(ts)

ParseFromRfc3339(s) ==
    IF s # << >> /\ \A i \in 1..Len(s) : IsDigit(s[i])
    THEN Ok(FromDecimal(s))
    ELSE Err("parse")

\* variant: text that does not parse reads as the epoch
get_last_seen_timestamp_or_epoch(f) ==
    IF f = None THEN None
    ELSE LET r == ParseFromRfc3339(Trim(Unwrap(f)))
         IN  IF r.ok THEN Some(r.val) ELSE Some(0)

\* variant: the text is parsed as read, with the line feed writeln! left behind it
get_last_seen_timestamp_untrimmed(f) ==
    IF f = None THEN None
    ELSE LET r == ParseFromRfc3339(Unwrap(f))
         IN  IF r.ok THEN Some(r.val) ELSE None

\* fs::read_to_string(..).ok().and_then(|s| parse_from_rfc3339(s.trim()).ok())
get_last_seen_timestamp(f) ==
    IF f = None THEN None
    ELSE LET r == ParseFromRfc3339(Trim(Unwrap(f)))
         IN  IF r.ok THEN Some(r.val) ELSE None

\* what the file-system lets a write do
WriteIo == {"ok", "create_fail", "write_fail"}

\* File::create truncates; writeln! then writes the text and a line feed
write_last_seen_timestamp(f, ts, io) ==
    CASE io = "create_fail" -> f
      [] io = "write_fail" -> Some(<< >>)
      [] OTHER -> Some(Append(ToRfc3339(ts), "\n"))

\* contents last_seen.txt may have when the process starts
InitFiles ==
    {None, Some(<< >>), Some(<<"x">>)}
        \cup {Some(Append(ToRfc3339(t), "\n")) : t \in Times}

(***************************************************************************)
(* Data model (models.rs) and the upstream's answers.                      *)
(***************************************************************************)
Logins == {"alice", "bob", "carol"}
\* the signed-in user (GithubClient::get_current_user)
CurrentUser == "carol"

\* octocrab's Author: the avatar URL is a parsed URL, so it is never empty
AuthorOf(l) == [login |-> l, avatar_url |-> "https"]

\* impl From<Author> for GithubUser
GithubUserFrom(author) == [login |-> author.login, avatar_url |-> author.avatar_url]

\* octocrab's ReviewState; "Pending" stands for every state without an arm of its own
ReviewStates == {"Approved", "ChangesRequested", "Dismissed", "Commented", "Pending"}

\* variant: a state without an arm of its own counts as a plain comment
CommentActionFrom_OtherIsComment(review_state) ==
    CASE review_state = "Approved" -> "ReviewApproved"
      [] review_state = "ChangesRequested" -> "ReviewChangesRequested"
      [] review_state = "Dismissed" -> "ReviewDismissed"
      [] OTHER -> "Comment"

\* impl From<ReviewState> for CommentAction
CommentActionFrom(review_state) ==
    CASE review_state = "Approved" -> "ReviewApproved"
      [] review_state = "ChangesRequested" -> "ReviewChangesRequested"
      [] review_state = "Dismissed" -> "ReviewDismissed"
      [] review_state = "Commented" -> "Comment"
      [] OTHER -> "Unknown"

\* A body is the sequence of the UTF-8 byte widths of its characters.
RECURSIVE ByteLen(_)
ByteLen(s) == IF s = << >> THEN 0 ELSE s[1] + ByteLen(Tail(s))

Ascii(n) == [i \in 1..n |-> 1]

(***************************************************************************)
(* Resolution of a notification to a pull request (get_pr_details, head).  *)
(***************************************************************************)
SegPulls == <<"p", "u", "l", "l", "s">>
SegRepos == <<"r", "e", "p", "o", "s">>
SegIssues == <<"i", "s", "s", "u", "e", "s">>
Seg42 == <<"4", "2">>
SegAbc == <<"a", "b", "c">>

\* Iterator::skip_while
RECURSIVE SkipWhileNot(_, _)
SkipWhileNot(segs, seg) ==
    IF segs = << >> \/ Head(segs) = seg THEN segs ELSE SkipWhileNot(Tail(segs), seg)

\* Iterator::nth, counted from 0
Nth(segs, n) == IF Len(segs) > n THEN Some(segs[n + 1]) ELSE None

RECURSIVE StripZeros(_)
StripZeros(d) == IF Len(d) > 1 /\ d[1] = "0" THEN StripZeros(Tail(d)) ELSE d

\* u64::MAX = 18446744073709551615
U64MaxDigits ==
    <<"1", "8", "4", "4", "6", "7", "4", "4", "0", "7",
      "3", "7", "0", "9", "5", "5", "1", "6", "1", "5">>

\* a <= b for digit strings of one length
RECURSIVE DigitsLeq(_, _)
DigitsLeq(a, b) ==
    IF a = << >> THEN TRUE
    ELSE IF DigitVal(a[1]) < DigitVal(b[1]) THEN TRUE
    ELSE IF DigitVal(a[1]) > DigitVal(b[1]) THEN FALSE
    ELSE DigitsLeq(Tail(a), Tail(b))

\* str::parse::<u64>: an optional "+", then digits only, no overflow; the number is
\* kept as its digits without leading zeros
ParseU64(seg) ==
    LET body == IF seg # << >> /\ seg[1] = "+" THEN Tail(seg) ELSE seg
        d == StripZeros(body)
    IN  IF body = << >> \/ \E i \in 1..Len(body) : ~IsDigit(body[i])
        THEN Err("pull request number was not a valid u64")
        ELSE IF Len(d) > Len(U64MaxDigits)
                \/ (Len(d) = Len(U64MaxDigits) /\ ~DigitsLeq(d, U64MaxDigits))
        THEN Err("pull request number was not a valid u64")
        ELSE Ok(d)

\* subject.url ... path_segments().skip_while(|seg| seg != "pulls").nth(1).parse::<u64>()
PrNumber(subject_url) ==
    IF subject_url = None THEN Err("notification has no subject URL")
    ELSE IF Unwrap(subject_url).cannot_be_a_base THEN Err("invalid URL path segments")
    ELSE LET seg == Nth(SkipWhileNot(Unwrap(subject_url).segments, SegPulls), 1)
         IN  IF seg = None THEN Err("could not find pull request number in URL")
             ELSE ParseU64(Unwrap(seg))

(***************************************************************************)
(* Classification of the pull-request snapshot (get_pr_details, 70-88).    *)
(***************************************************************************)
\* variant: the draft test ahead of the merged test
ClassifyState_DraftFirst(pr) ==
    IF pr.draft = Some(TRUE) THEN "Draft"
    ELSE IF pr.merged = Some(TRUE) THEN "Merged"
    ELSE IF pr.state = Some("closed") THEN "Closed"
    ELSE IF pr.state = Some("open") THEN "Open"
    ELSE "Unknown"

\* pr.merged.unwrap_or(false), pr.draft.unwrap_or(false), pr.state == Some(..)
ClassifyState(pr) ==
    IF pr.merged = Some(TRUE) THEN "Merged"
    ELSE IF pr.draft = Some(TRUE) THEN "Draft"
    ELSE IF pr.state = Some("closed") THEN "Closed"
    ELSE IF pr.state = Some("open") THEN "Open"
    ELSE "Unknown"

\* match pr.user { Some(user) => GithubUser::from(*user), None => "unknown", "" }
PrAuthor(pr) ==
    IF IsSome(pr.user) THEN GithubUserFrom(Unwrap(pr.user))
    ELSE [login |-> "unknown", avatar_url |-> ""]

(***************************************************************************)
(* The since filter, the mapping to PullRequestComment and the merge       *)
(* (get_pr_details, 90-148).                                               *)
(***************************************************************************)
\* variant: an item as old as since is kept
KeepComment_Inclusive(since, comment) ==
    IF since = None THEN TRUE ELSE comment.created_at >= Unwrap(since)

\* since.is_none_or(|since| comment.created_at > since)
KeepComment(since, comment) ==
    IF since = None THEN TRUE ELSE comment.created_at > Unwrap(since)

\* since.is_none_or(|since| review.submitted_at.is_some_and(|at| at > since))
KeepReview(since, review) ==
    IF since = None THEN TRUE
    ELSE IsSome(review.submitted_at) /\ Unwrap(review.submitted_at) > Unwrap(since)

MapSeq(s, F(_)) == [i \in 1..Len(s) |-> F(s[i])]

ReviewCommentToComment(comment) ==
    [created_at |-> Some(comment.created_at),
     user |-> IF IsSome(comment.user) THEN Some(GithubUserFrom(Unwrap(comment.user))) ELSE None,
     action |-> "Comment",
     body |-> comment.body]

IssueCommentToComment(comment) ==
    [created_at |-> Some(comment.created_at),
     user |-> Some(GithubUserFrom(comment.user)),
     action |-> "Comment",
     body |-> IF IsSome(comment.body) THEN Unwrap(comment.body) ELSE << >>]

ReviewToComment(review) ==
    [created_at |-> review.submitted_at,
     user |-> IF IsSome(review.user) THEN Some(GithubUserFrom(Unwrap(review.user))) ELSE None,
     action |-> IF IsSome(review.state) THEN CommentActionFrom(Unwrap(review.state))
                ELSE "Unknown",
     body |-> IF IsSome(review.body) THEN Unwrap(review.body) ELSE << >>]

ReviewCommentsSince(since, items) ==
    MapSeq(SelectSeq(items, LAMBDA c : KeepComment(since, c)), ReviewCommentToComment)

IssueCommentsSince(since, items) ==
    MapSeq(SelectSeq(items, LAMBDA c : KeepComment(since, c)), IssueCommentToComment)

ReviewsSince(since, items) ==
    MapSeq(SelectSeq(items, LAMBDA r : KeepReview(since, r)), ReviewToComment)

\* the place of x in a sorted run: behind every element whose key is not above x's
RECURSIVE InsertByKey(_, _)
InsertByKey(sorted, x) ==
    IF sorted = << >> THEN <<x>>
    ELSE IF OptLeq(Head(sorted).created_at, x.created_at)
         THEN <<Head(sorted)>> \o InsertByKey(Tail(sorted), x)
         ELSE <<x>> \o sorted

\* variant insertion: x goes ahead of the elements with its own key
RECURSIVE InsertByKeyBefore(_, _)
InsertByKeyBefore(sorted, x) ==
    IF sorted = << >> THEN <<x>>
    ELSE IF OptLeq(x.created_at, Head(sorted).created_at)
         THEN <<x>> \o sorted
         ELSE <<Head(sorted)>> \o InsertByKeyBefore(Tail(sorted), x)

\* variant: a sort that is not stable
RECURSIVE sort_by_key_unstable(_)
sort_by_key_unstable(comments) ==
    IF comments = << >> THEN << >>
    ELSE InsertByKeyBefore(sort_by_key_unstable(SubSeq(comments, 1, Len(comments) - 1)),
                           comments[Len(comments)])

\* comments.sort_by_key(|f| f.created_at): slice::sort_by_key is a stable sort
RECURSIVE sort_by_key(_)
sort_by_key(comments) ==
    IF comments = << >> THEN << >>
    ELSE InsertByKey(sort_by_key(SubSeq(comments, 1, Len(comments) - 1)),
                     comments[Len(comments)])

\* GithubClient::get_pr_details; up holds the upstream's answer to each fetch
get_pr_details(notification, since, up) ==
    IF notification.owner = None THEN Err("repository owner is missing")
    ELSE LET pr_number == PrNumber(notification.url)
         IN  IF ~pr_number.ok THEN pr_number
             ELSE IF ~up.pr.ok
             THEN Err("failed to fetch pull request details from GitHub")
             ELSE IF ~up.rc.ok THEN Err("failed to fetch pull request comments")
             ELSE IF ~up.ic.ok THEN Err("failed to fetch issue comments")
             ELSE IF ~up.rv.ok THEN Err("failed to fetch pull request reviews")
             ELSE Ok([author |-> PrAuthor(up.pr.val),
                      state |-> ClassifyState(up.pr.val),
                      comments |-> sort_by_key(ReviewCommentsSince(since, up.rc.val)
                                               \o IssueCommentsSince(since, up.ic.val)
                                               \o ReviewsSince(since, up.rv.val)),
                      html_url |-> <<Unwrap(notification.owner), notification.repo,
                                     pr_number.val>>])

\* variant: the pull request is fetched before the notification is resolved
get_pr_details_fetches_first(notification, up) ==
    IF ~up.pr.ok \/ notification.owner = None \/ ~PrNumber(notification.url).ok
    THEN <<"get_pull_request">>
    ELSE IF ~up.rc.ok THEN <<"get_pull_request", "get_pr_comments">>
    ELSE IF ~up.ic.ok THEN <<"get_pull_request", "get_pr_comments", "get_issue_comments">>
    ELSE <<"get_pull_request", "get_pr_comments", "get_issue_comments", "get_reviews">>

\* the upstream fetches one call of get_pr_details issues, in order: nothing before
\* the owner and the number are resolved, and nothing behind the first `?` that fails
get_pr_details_fetches(notification, up) ==
    IF notification.owner = None \/ ~PrNumber(notification.url).ok THEN << >>
    ELSE IF ~up.pr.ok THEN <<"get_pull_request">>
    ELSE IF ~up.rc.ok THEN <<"get_pull_request", "get_pr_comments">>
    ELSE IF ~up.ic.ok THEN <<"get_pull_request", "get_pr_comments", "get_issue_comments">>
    ELSE <<"get_pull_request", "get_pr_comments", "get_issue_comments", "get_reviews">>

(***************************************************************************)
(* Avatar cache (avatar_cache.rs).  An entry is the file of one login:     *)
(* whether it exists, its modification time, and whether it holds a whole  *)
(* PNG image.                                                              *)
(***************************************************************************)
MAX_CACHE_DAYS == 1
MAX_CACHE_AGE == MAX_CACHE_DAYS * 24 * 60 * 60

CacheKeys == Logins \cup {"unknown"}
NoEntry == [exists |-> FALSE, mtime |-> 0, complete |-> FALSE]

\* what the network and the file system let one download do
NetOutcomes == {"ok", "fetch_fail", "create_fail", "write_fail"}

\* Url::parse; an absent author's avatar_url is String::default()
UrlParses(avatar_url) == avatar_url # ""

\* get_avatar_local_uri: the file URI of the login's path in the temp directory
get_avatar_local_uri(login) == <<"file", login>>

\* variant: an entry exactly MAX_CACHE_AGE old still counts as fresh
IsFresh_Inclusive(entry, now) ==
    entry.exists /\ now >= entry.mtime /\ now - entry.mtime <= MAX_CACHE_AGE

\* exists(), metadata(), modified(), elapsed() all Ok and elapsed < MAX_CACHE_AGE
IsFresh(entry, now) ==
    entry.exists /\ now >= entry.mtime /\ now - entry.mtime < MAX_CACHE_AGE

\* download_avatar: parse the URL, fetch, decode and resize, File::create, write_to.
\* fetches counts the calls of reqwest::get.
download_avatar(entry, now, avatar_url, net) ==
    IF ~UrlParses(avatar_url) THEN [ok |-> FALSE, entry |-> entry, fetches |-> 0]
    ELSE CASE net = "fetch_fail" -> [ok |-> FALSE, entry |-> entry, fetches |-> 1]
           [] net = "create_fail" -> [ok |-> FALSE, entry |-> entry, fetches |-> 1]
           [] net = "write_fail" ->
                [ok |-> FALSE,
                 entry |-> [exists |-> TRUE, mtime |-> now, complete |-> FALSE],
                 fetches |-> 1]
           [] OTHER ->
                [ok |-> TRUE,
                 entry |-> [exists |-> TRUE, mtime |-> now, complete |-> TRUE],
                 fetches |-> 1]

\* variant: the cached file is never consulted
ensure_avatar_nocache(entry, now, login, avatar_url, net) ==
    LET d == download_avatar(entry, now, avatar_url, net)
    IN  [ok |-> d.ok, uri |-> get_avatar_local_uri(login), entry |-> d.entry,
         fetches |-> d.fetches]

\* AvatarCache::ensure_avatar on the login's entry
ensure_avatar(entry, now, login, avatar_url, net) ==
    IF IsFresh(entry, now)
    THEN [ok |-> TRUE, uri |-> get_avatar_local_uri(login), entry |-> entry,
          fetches |-> 0]
    ELSE LET d == download_avatar(entry, now, avatar_url, net)
         IN  [ok |-> d.ok, uri |-> get_avatar_local_uri(login), entry |-> d.entry,
              fetches |-> d.fetches]

\* the users ensure_avatars asks for: the author, then each comment's user if any
RECURSIVE CommentUsers(_)
CommentUsers(comments) ==
    IF comments = << >> THEN << >>
    ELSE (IF IsSome(Head(comments).user) THEN <<Unwrap(Head(comments).user)>> ELSE << >>)
             \o CommentUsers(Tail(comments))

\* ensure_avatars: the first failure returns (the ? operator)
RECURSIVE EnsureEach(_, _, _, _)
EnsureEach(dir, now, users, net) ==
    IF users = << >> THEN [ok |-> TRUE, dir |-> dir]
    ELSE LET u == Head(users)
             r == ensure_avatar(dir[u.login], now, u.login, u.avatar_url, net[u.login])
             dir2 == [dir EXCEPT ![u.login] = r.entry]
         IN  IF ~r.ok THEN [ok |-> FALSE, dir |-> dir2]
             ELSE EnsureEach(dir2, now, Tail(users), net)

\* variant: only the commenters' avatars are ensured, not the author's
ensure_avatars_commenters(dir, now, pr, net) ==
    EnsureEach(dir, now, CommentUsers(pr.comments), net)

\* ensure_avatars: the author's avatar, then each comment's user's
ensure_avatars(dir, now, pr, net) ==
    EnsureEach(dir, now, <<pr.author>> \o CommentUsers(pr.comments), net)

(***************************************************************************)
(* Presentation (desktop_notifier.rs) and the processing of one            *)
(* notification (notification_processor.rs).                               *)
(***************************************************************************)
MAX_LENGTH == 100

\* the number of leading characters of s that end within its first n bytes, counted
\* from character i
RECURSIVE CharsWithin(_, _, _)
CharsWithin(s, i, n) ==
    IF i > Len(s) \/ s[i] > n THEN i - 1 ELSE CharsWithin(s, i + 1, n - s[i])

\* str::is_char_boundary, for n up to the length of s
IsCharBoundary(s, n) == ByteLen(SubSeq(s, 1, CharsWithin(s, 1, n))) = n

\* &s[..n] where n is a character boundary
Prefix(s, n) == SubSeq(s, 1, CharsWithin(s, 1, n))

\* truncate_string: &s[..MAX_LENGTH] panics when MAX_LENGTH is inside a character;
\* the ellipsis is one character of three bytes
truncate_string(s) ==
    IF ByteLen(s) > MAX_LENGTH
    THEN IF IsCharBoundary(s, MAX_LENGTH) THEN Ok(Prefix(s, MAX_LENGTH) \o <<3>>)
         ELSE Err("panic")
    ELSE Ok(s)

\* the body lines notify_pull_request builds, one for each comment it does not skip
RECURSIVE BodyEntries(_, _)
BodyEntries(comments, current_user_login) ==
    IF comments = << >> THEN Ok(<< >>)
    ELSE LET comment == Head(comments)
             user_login == IF IsSome(comment.user) THEN Unwrap(comment.user).login
                           ELSE "unknown"
             rest == BodyEntries(Tail(comments), current_user_login)
         IN  IF user_login = current_user_login THEN rest
             ELSE LET text == truncate_string(comment.body)
                  IN  IF ~text.ok THEN text
                      ELSE IF ~rest.ok THEN rest
                      ELSE Ok(<<[login |-> IF IsSome(comment.user)
                                           THEN Unwrap(comment.user).login ELSE "",
                                 action |-> comment.action,
                                 text |-> text.val]>> \o rest.val)

\* DesktopNotifier::notify_pull_request: a failure to show or to play is logged and
\* the call returns Ok; only a panic of truncate_string leaves it otherwise
notify_pull_request(pr, current_user_login, sound) ==
    LET entries == BodyEntries(pr.comments, current_user_login)
    IN  IF ~entries.ok THEN [status |-> "panic"]
        ELSE [status |-> "ok", title |-> pr.state, entries |-> entries.val,
              url |-> pr.html_url, sound |-> sound]

\* DesktopNotifier::notify_generic
notify_generic(notification) == [status |-> "ok", entries |-> << >>, sound |-> None]

\* variant: only the latest comment decides
approved_latest(comments) ==
    comments # << >> /\ comments[Len(comments)].action = "ReviewApproved"

\* pr.comments.iter().any(|c| matches!(c.action, CommentAction::ReviewApproved))
approved(comments) ==
    \E i \in 1..Len(comments) : comments[i].action = "ReviewApproved"

\* NotificationProcessor::process_notification; dir and net are the cache directory
\* and the network as this call finds them.  The result tells what the call did:
\* status and err (the Result returned, or the panic), the upstream fetches issued,
\* the details aggregated, the cache directory left, and the notification shown.
process_notification(notification, since, up, dir, now, net) ==
    IF notification.type = "PullRequest"
    THEN LET pr == get_pr_details(notification, since, up)
             fetches == get_pr_details_fetches(notification, up)
         IN  IF ~pr.ok
             THEN [status |-> "err", err |-> pr.err, fetches |-> fetches, pr |-> pr,
                   dir |-> dir, shown |-> None]
             ELSE LET avatars == ensure_avatars(dir, now, pr.val, net)
                      sound == IF approved(pr.val.comments) THEN Some("Approved")
                               ELSE Some("Comment")
                      shown == notify_pull_request(pr.val, CurrentUser, sound)
                  IN  IF ~avatars.ok
                      THEN [status |-> "err", err |-> "avatar", fetches |-> fetches,
                            pr |-> pr, dir |-> avatars.dir, shown |-> None]
                      ELSE IF shown.status = "panic"
                      THEN [status |-> "panic", err |-> "panic", fetches |-> fetches,
                            pr |-> pr, dir |-> avatars.dir, shown |-> None]
                      ELSE [status |-> "ok", err |-> "", fetches |-> fetches,
                            pr |-> pr, dir |-> avatars.dir, shown |-> Some(shown)]
    ELSE [status |-> "ok", err |-> "", fetches |-> << >>, pr |-> None, dir |-> dir,
          shown |-> Some(notify_generic(notification))]

(***************************************************************************)
(* Idle values: what a specification gives the variables it does not use.  *)
(***************************************************************************)
PollIdle ==
    /\ pc = "idle"
    /\ file = None
    /\ last_seen = None
    /\ listing = "none"
    /\ notifications = << >>
    /\ idx = 1
    /\ outcomes = << >>
    /\ written = "none"
    /\ file0 = None
    /\ log = None

AggIdle ==
    /\ aggPc = "idle"
    /\ aggSince = None
    /\ aggUp = << >>
    /\ aggOut = << >>

ClsIdle ==
    /\ clsPc = "idle"
    /\ clsPr = << >>
    /\ clsOut = << >>

CacheIdle ==
    /\ cachePc = "idle"
    /\ cache = << >>
    /\ clock = 0
    /\ ticks = 0
    /\ lastCall = None
    /\ lastOf = << >>
    /\ inflight = << >>

ProcIdle ==
    /\ procPc = "idle"
    /\ procIn = << >>
    /\ procOut = << >>

TwIdle ==
    /\ twPc = "idle"
    /\ twWorld = << >>
    /\ twFile = None
    /\ twRuns = << >>

PgIdle ==
    /\ pgPc = "idle"
    /\ pgHeld = << >>
    /\ pgFile = None
    /\ pgRuns = << >>

(***************************************************************************)
(* SpecAgg: get_pr_details applied to drawn upstream answers.              *)
(***************************************************************************)
SeqsUpTo(S, n) == UNION {[1..k -> S] : k \in 0..n}

\* https://api.github.com/repos/o/r/pulls/42
UrlPull42 ==
    [cannot_be_a_base |-> FALSE,
     segments |-> <<SegRepos, <<"o">>, <<"r">>, SegPulls, Seg42>>]

AggNotification ==
    [type |-> "PullRequest", owner |-> Some("o"), repo |-> "r", url |-> Some(UrlPull42)]

AggPullRequest ==
    [merged |-> Some(FALSE), draft |-> Some(FALSE), state |-> Some("open"),
     user |-> Some(AuthorOf("alice"))]

\* review comments: two bodies, so that two comments of one instant differ
AggReviewComments ==
    {[created_at |-> t, user |-> Some(AuthorOf("alice")), body |-> b] :
        t \in Times, b \in {<<1>>, <<1, 1>>}}

AggIssueComments ==
    {[created_at |-> t, user |-> AuthorOf("bob"), body |-> Some(<<1>>)] : t \in Times}

\* reviews: with and without a submission time
AggReviews ==
    {[submitted_at |-> o, user |-> Some(AuthorOf("carol")), body |-> None,
      state |-> Some("Approved")] : o \in OptTimes}

\* one of the four fetches fails
AggFailures ==
    {[pr |-> Err("net"), rc |-> Ok(<< >>), ic |-> Ok(<< >>), rv |-> Ok(<< >>)],
     [pr |-> Ok(AggPullRequest), rc |-> Err("net"), ic |-> Ok(<< >>), rv |-> Ok(<< >>)],
     [pr |-> Ok(AggPullRequest), rc |-> Ok(<< >>), ic |-> Err("net"), rv |-> Ok(<< >>)],
     [pr |-> Ok(AggPullRequest), rc |-> Ok(<< >>), ic |-> Ok(<< >>), rv |-> Err("net")]}

AggInit ==
    /\ PollIdle /\ ClsIdle /\ CacheIdle /\ ProcIdle /\ TwIdle /\ PgIdle
    /\ aggPc = "input"
    /\ aggSince \in OptTimes
    /\ aggOut = << >>
    /\ \E rc \in SeqsUpTo(AggReviewComments, MaxItems) :
         \E ic \in SeqsUpTo(AggIssueComments, MaxItems - Len(rc)) :
           \E rv \in SeqsUpTo(AggReviews, MaxItems - Len(rc) - Len(ic)) :
             \/ aggUp = [pr |-> Ok(AggPullRequest), rc |-> Ok(rc), ic |-> Ok(ic),
                         rv |-> Ok(rv)]
             \/ /\ Len(rc) + Len(ic) + Len(rv) = 0
                /\ aggUp \in AggFailures
             \/ /\ Len(rc) <= 1 /\ Len(ic) <= 1 /\ Len(rv) = 0
                /\ \E o \in OptTimes : \E st \in {None} \cup {Some(x) : x \in ReviewStates} :
                     aggUp = [pr |-> Ok(AggPullRequest), rc |-> Ok(rc), ic |-> Ok(ic),
                              rv |-> Ok(<<[submitted_at |-> o,
                                           user |-> Some(AuthorOf("carol")),
                                           body |-> None, state |-> st]>>)]

\* one call of get_pr_details
Aggregate ==
    /\ aggPc = "input"
    /\ aggOut' = get_pr_details(AggNotification, aggSince, aggUp)
    /\ aggPc' = "done"
    /\ UNCHANGED <<aggSince, aggUp, pollVars, clsVars, cacheVars, procVars, twVars, pgVars>>

AggNext == Aggregate

SpecAgg == AggInit /\ [][AggNext]_vars

AggDone == aggPc = "done" /\ aggOut.ok

\* the items that pass the since filter, mapped, in the order of the three fetches
AggSurvivors ==
    ReviewCommentsSince(aggSince, aggUp.rc.val)
        \o IssueCommentsSince(aggSince, aggUp.ic.val)
        \o ReviewsSince(aggSince, aggUp.rv.val)

\* every timestamp an upstream item of this call carries
AggInputTimes ==
    {Some(aggUp.rc.val[i].created_at) : i \in 1..Len(aggUp.rc.val)}
        \cup {Some(aggUp.ic.val[i].created_at) : i \in 1..Len(aggUp.ic.val)}
        \cup {aggUp.rv.val[i].submitted_at : i \in 1..Len(aggUp.rv.val)}

\* C5: for a present since, every comment get_pr_details returns has created_at
\* absent or strictly later than since; an item as old as since is left out.
C5_CommentsNewerThanSince ==
    (AggDone /\ IsSome(aggSince)) =>
        \A i \in 1..Len(aggOut.val.comments) :
            \/ aggOut.val.comments[i].created_at = None
            \/ Unwrap(aggOut.val.comments[i].created_at) > Unwrap(aggSince)

\* C5 witness: a call whose input holds an item stamped exactly since and a later
\* one, and which returned a comment
C5_Witness ==
    /\ AggDone
    /\ IsSome(aggSince)
    /\ aggSince \in AggInputTimes
    /\ Len(aggOut.val.comments) > 0
    /\ Len(aggOut.val.comments) < Len(aggUp.rc.val) + Len(aggUp.ic.val) + Len(aggUp.rv.val)

\* C6 (as claimed): whatever since is, every review without submitted_at is among
\* the returned comments. (Only a review can give a comment without created_at.)
C6_UntimedReviewsKept ==
    AggDone =>
        Cardinality({i \in 1..Len(aggUp.rv.val) : aggUp.rv.val[i].submitted_at = None})
            = Cardinality({j \in 1..Len(aggOut.val.comments) :
                              aggOut.val.comments[j].created_at = None})

\* C7: the returned comments are the surviving items of the three fetches in
\* ascending created_at order (an absent timestamp first), no item lost or added,
\* and the items of one timestamp (or without one) keep their fetch order.
C7_StableMerge ==
    AggDone =>
        LET out == aggOut.val.comments
        IN  /\ Len(out) = Len(AggSurvivors)
            /\ \A i \in 1..Len(out) : \A j \in i..Len(out) :
                   OptLeq(out[i].created_at, out[j].created_at)
            /\ \A k \in OptTimes :
                   SelectSeq(out, LAMBDA c : c.created_at = k)
                       = SelectSeq(AggSurvivors, LAMBDA c : c.created_at = k)

\* C7 witness: the merge had to move an item, and two different returned comments
\* share a timestamp, and one returned comment has none
C7_Witness ==
    /\ AggDone
    /\ aggOut.val.comments # AggSurvivors
    /\ \E i \in 1..Len(aggOut.val.comments) : \E j \in 1..Len(aggOut.val.comments) :
          /\ i < j
          /\ aggOut.val.comments[i].created_at = aggOut.val.comments[j].created_at
          /\ aggOut.val.comments[i] # aggOut.val.comments[j]
    /\ \E i \in 1..Len(aggOut.val.comments) : aggOut.val.comments[i].created_at = None

\* C23: a review's state gives the comment's action by the table approved ->
\* ReviewApproved, changes requested -> ReviewChangesRequested, dismissed ->
\* ReviewDismissed, commented -> Comment, any other state and no state -> Unknown,
\* and the call does not fail for it; a review comment and an issue comment always
\* give Comment. (The upstream drawn has carol write every review and nothing else.)
C23_ReviewStateTable ==
    (aggPc = "done" /\ aggUp.pr.ok /\ aggUp.rc.ok /\ aggUp.ic.ok /\ aggUp.rv.ok) =>
        /\ aggOut.ok
        /\ LET Table(st) ==
                    CASE st = Some("Approved") -> "ReviewApproved"
                      [] st = Some("ChangesRequested") -> "ReviewChangesRequested"
                      [] st = Some("Dismissed") -> "ReviewDismissed"
                      [] st = Some("Commented") -> "Comment"
                      [] OTHER -> "Unknown"
                out == aggOut.val.comments
                rv == aggUp.rv.val
                IsReview(c) == c.user = Some([login |-> "carol", avatar_url |-> "https"])
            IN  /\ \A j \in 1..Len(out) : ~IsReview(out[j]) => out[j].action = "Comment"
                /\ \A j \in 1..Len(out) :
                       IsReview(out[j]) =>
                           \E i \in 1..Len(rv) :
                               /\ out[j].created_at = rv[i].submitted_at
                               /\ out[j].action = Table(rv[i].state)
                /\ \A i \in 1..Len(rv) :
                       (aggSince = None
                           \/ (rv[i].submitted_at # None
                                 /\ Unwrap(rv[i].submitted_at) > Unwrap(aggSince))) =>
                           \E j \in 1..Len(out) :
                               /\ IsReview(out[j])
                               /\ out[j].created_at = rv[i].submitted_at
                               /\ out[j].action = Table(rv[i].state)

\* C23 witness: a pending review next to a review comment and an issue comment came
\* back as an Unknown action between two Comment actions
C23_Witness ==
    /\ AggDone
    /\ Len(aggUp.rc.val) = 1 /\ Len(aggUp.ic.val) = 1 /\ Len(aggUp.rv.val) = 1
    /\ aggUp.rv.val[1].state = Some("Pending")
    /\ Len(aggOut.val.comments) = 3
    /\ aggOut.val.comments[1].action = "Comment"
    /\ aggOut.val.comments[2].action = "Unknown"
    /\ aggOut.val.comments[3].action = "Comment"

\* C23 witness for a review without a state
C23_WitnessNoState ==
    /\ AggDone
    /\ Len(aggUp.rv.val) = 1
    /\ aggUp.rv.val[1].state = None
    /\ \E j \in 1..Len(aggOut.val.comments) : aggOut.val.comments[j].action = "Unknown"

(***************************************************************************)
(* SpecClassify: the state and the author of a drawn snapshot.             *)
(***************************************************************************)
OptBools == {None, Some(TRUE), Some(FALSE)}
\* octocrab's IssueState
OptIssueStates == {None, Some("open"), Some("closed")}

PullRequests ==
    {[merged |-> m, draft |-> d, state |-> st, user |-> u] :
        m \in OptBools, d \in OptBools, st \in OptIssueStates,
        u \in {None} \cup {Some(AuthorOf(l)) : l \in Logins}}

ClsInit ==
    /\ PollIdle /\ AggIdle /\ CacheIdle /\ ProcIdle /\ TwIdle /\ PgIdle
    /\ clsPc = "input"
    /\ clsPr \in PullRequests
    /\ clsOut = << >>

\* get_pr_details, lines 70-88, on the fetched snapshot
Classify ==
    /\ clsPc = "input"
    /\ clsOut' = [state |-> ClassifyState(clsPr), author |-> PrAuthor(clsPr)]
    /\ clsPc' = "done"
    /\ UNCHANGED <<clsPr, pollVars, aggVars, cacheVars, procVars, twVars, pgVars>>

ClsNext == Classify

SpecClassify == ClsInit /\ [][ClsNext]_vars

\* C8: the state is decided by (merged, draft, state) alone, the first match of
\* merged, draft, closed, open winning, and Unknown for everything else (absent
\* flags and an absent state included); every snapshot gets a state.
C8_StatePrecedence ==
    clsPc = "done" =>
        LET m == clsPr.merged = Some(TRUE)
            d == clsPr.draft = Some(TRUE)
            st == clsPr.state
        IN  /\ clsOut.state \in {"Merged", "Draft", "Closed", "Open", "Unknown"}
            /\ m => clsOut.state = "Merged"
            /\ (~m /\ d) => clsOut.state = "Draft"
            /\ (~m /\ ~d /\ st = Some("closed")) => clsOut.state = "Closed"
            /\ (~m /\ ~d /\ st = Some("open")) => clsOut.state = "Open"
            /\ (~m /\ ~d /\ st = None) => clsOut.state = "Unknown"
            /\ \A other \in PullRequests :
                   (other.merged = clsPr.merged /\ other.draft = clsPr.draft
                        /\ other.state = clsPr.state)
                       => ClassifyState(other) = clsOut.state

\* C8 witness: merged and draft both set on an open pull request gives Merged
C8_Witness ==
    /\ clsPc = "done"
    /\ clsPr.merged = Some(TRUE)
    /\ clsPr.draft = Some(TRUE)
    /\ clsPr.state = Some("open")
    /\ clsOut.state = "Merged"

(***************************************************************************)
(* Spec: the poll loop, GithubNotificationPoller::run.                     *)
(***************************************************************************)
\* variant: an empty page gives the epoch instead of no maximum
MaxUpdatedAt_OrEpoch(items) ==
    IF items = << >> THEN Some(0)
    ELSE Some(CHOOSE m \in {items[i].updated_at : i \in 1..Len(items)} :
                  \A i \in 1..Len(items) : items[i].updated_at <= m)

\* variant: the page is taken to be in ascending order
MaxUpdatedAt_Last(items) ==
    IF items = << >> THEN None ELSE Some(items[Len(items)].updated_at)

\* notifications.items.into_iter().map(|n| n.updated_at).max()
RECURSIVE MaxUpdatedAt(_)
MaxUpdatedAt(items) ==
    IF items = << >> THEN None
    ELSE LET rest == MaxUpdatedAt(Tail(items))
         IN  IF IsSome(rest) /\ Unwrap(rest) > Head(items).updated_at THEN rest
             ELSE Some(Head(items).updated_at)

\* variant: the maximum is stored as it is
PadWatermark_None(ts) == ts

\* ts += chrono::Duration::seconds(1)
PadWatermark(ts) == ts + 1

\* the subject URLs of the notifications drawn
UrlIssue42 ==
    [cannot_be_a_base |-> FALSE,
     segments |-> <<SegRepos, <<"o">>, <<"r">>, SegIssues, Seg42>>]
UrlPullsOnly ==
    [cannot_be_a_base |-> FALSE, segments |-> <<SegRepos, <<"o">>, <<"r">>, SegPulls>>]
UrlPullAbc ==
    [cannot_be_a_base |-> FALSE,
     segments |-> <<SegRepos, <<"o">>, <<"r">>, SegPulls, SegAbc>>]

PullNotification ==
    [type |-> "PullRequest", owner |-> Some("o"), repo |-> "r", url |-> Some(UrlPull42)]

\* notifications that need no upstream fetch: another subject type, or a pull request
\* that cannot be resolved
PlainNotifications ==
    {[type |-> "Issue", owner |-> Some("o"), repo |-> "r", url |-> Some(UrlIssue42)]}
        \cup {[type |-> "PullRequest", owner |-> ow, repo |-> "r", url |-> u] :
                ow \in {None, Some("o")},
                u \in {None, Some(UrlIssue42), Some(UrlPullsOnly), Some(UrlPullAbc)}}

\* bodies: short, and 101 bytes with a two-byte character across byte 100
BodyShort == Ascii(2)
BodySplit == Ascii(99) \o <<2>>

PollReviewComments ==
    {[created_at |-> t, user |-> u, body |-> b] :
        t \in {0, MaxTime},
        u \in {None, Some(AuthorOf("alice")), Some(AuthorOf(CurrentUser))},
        b \in {BodyShort, BodySplit}}

PollIssueComments ==
    {[created_at |-> MaxTime, user |-> AuthorOf("bob"), body |-> Some(BodyShort)]}

PollReviews ==
    {[submitted_at |-> o, user |-> Some(AuthorOf("bob")), body |-> None,
      state |-> Some("Approved")] : o \in {None, Some(MaxTime)}}

PollPullRequests ==
    {[merged |-> Some(FALSE), draft |-> Some(FALSE), state |-> Some("open"), user |-> u] :
        u \in {None, Some(AuthorOf("alice"))}}

\* the upstream's answers to the four fetches of one pull request: one of them fails,
\* or all succeed, each collection with at most one item
PollUpstreams ==
    AggFailures
        \cup {[pr |-> Ok(p), rc |-> Ok(rc), ic |-> Ok(ic), rv |-> Ok(rv)] :
                p \in PollPullRequests,
                rc \in SeqsUpTo(PollReviewComments, 1),
                ic \in SeqsUpTo(PollIssueComments, 1),
                rv \in SeqsUpTo(PollReviews, 1)}

\* the cache directory as one notification finds it (all entries absent, or all
\* fresh) and the network (every download works, or every download fails)
PollDirs ==
    {[k \in CacheKeys |-> NoEntry],
     [k \in CacheKeys |->
        IF k \in Logins THEN [exists |-> TRUE, mtime |-> 0, complete |-> TRUE]
        ELSE NoEntry]}
PollNets == {[k \in CacheKeys |-> "ok"], [k \in CacheKeys |-> "fetch_fail"]}

NotificationItems == {[updated_at |-> t] : t \in Times}

Init ==
    /\ AggIdle /\ ClsIdle /\ CacheIdle /\ ProcIdle /\ TwIdle /\ PgIdle
    /\ pc = "fetch"
    /\ file \in InitFiles
    /\ file0 = file
    /\ last_seen = None
    /\ listing = "none"
    /\ notifications = << >>
    /\ idx = 1
    /\ outcomes = << >>
    /\ log = None
    /\ written = "none"

\* run, lines 33-45: the listing call fails; the cycle ends with the sleep
FetchFails ==
    /\ pc = "fetch"
    /\ last_seen' = get_last_seen_timestamp(file)
    /\ file0' = file
    /\ listing' = "err"
    /\ notifications' = << >>
    /\ idx' = 1
    /\ outcomes' = << >>
    /\ log' = None
    /\ written' = "none"
    /\ pc' = "sleep"
    /\ UNCHANGED <<file, aggVars, clsVars, cacheVars, procVars, twVars, pgVars>>

\* run, lines 33-45: the listing call returns a page
FetchOk ==
    /\ pc = "fetch"
    /\ last_seen' = get_last_seen_timestamp(file)
    /\ file0' = file
    /\ listing' = "ok"
    /\ \E items \in SeqsUpTo(NotificationItems, MaxNotifs) : notifications' = items
    /\ idx' = 1
    /\ outcomes' = << >>
    /\ log' = None
    /\ written' = "none"
    /\ pc' = "process"
    /\ UNCHANGED <<file, aggVars, clsVars, cacheVars, procVars, twVars, pgVars>>

\* what one turn of the for loop does with the status of process_notification: an
\* Err is logged and the loop goes on; a panic unwinds run
AfterAttempt(status) ==
    /\ outcomes' = Append(outcomes, status)
    /\ IF status = "panic"
       THEN pc' = "panicked" /\ idx' = idx
       ELSE pc' = "process" /\ idx' = idx + 1
    /\ UNCHANGED <<file, file0, last_seen, listing, notifications, written,
                   aggVars, clsVars, cacheVars, procVars, twVars, pgVars>>

\* the values run's last_seen takes: a file of InitFiles, or a padded maximum
SinceValues == {None} \cup {Some(t) : t \in 0..PadWatermark(MaxTime)}

\* what the poll loop keeps of one attempt: the notification, and of the result of
\* process_notification its status, its error and the upstream fetches issued
AttemptOf(notification, did) ==
    [notification |-> notification, status |-> did.status, err |-> did.err,
     fetches |-> did.fetches]

\* for each since, the notifications drawn and what process_notification does with
\* each on the upstream answers, cache directories and networks drawn
Attempts ==
    [since \in SinceValues |->
        {AttemptOf(n, process_notification(n, since, [pr |-> Err("net")],
                                           [k \in CacheKeys |-> NoEntry], 0,
                                           [k \in CacheKeys |-> "ok"])) :
            n \in PlainNotifications}
            \cup {AttemptOf(PullNotification,
                            process_notification(PullNotification, since, x[1], x[2], 0,
                                                 x[3])) :
                    x \in PollUpstreams \X PollDirs \X PollNets}]

\* process_notifications, lines 23-35: one turn of the for loop
ProcessOne ==
    /\ pc = "process"
    /\ idx <= Len(notifications)
    /\ \E attempt \in Attempts[last_seen] :
         /\ AfterAttempt(attempt.status)
         /\ log' = Some([index |-> idx, notification |-> attempt.notification,
                         since |-> last_seen, err |-> attempt.err,
                         fetches |-> attempt.fetches])

\* variant: the watermark is written when the first notification has been attempted
Finish_AfterFirst ==
    /\ pc = "process"
    /\ idx > 1 \/ notifications = << >>
    /\ LET max_seen == MaxUpdatedAt(notifications)
       IN  IF IsSome(max_seen)
           THEN \E io \in WriteIo :
                    /\ file' = write_last_seen_timestamp(file, PadWatermark(Unwrap(max_seen)),
                                                         io)
                    /\ written' = io
           ELSE file' = file /\ written' = "none"
    /\ pc' = "sleep"
    /\ UNCHANGED <<file0, last_seen, listing, notifications, idx, outcomes, log,
                   aggVars, clsVars, cacheVars, procVars, twVars, pgVars>>

\* variant: the cycle ends without the sleep
Finish_NoSleep ==
    /\ pc = "process"
    /\ idx > Len(notifications)
    /\ LET max_seen == MaxUpdatedAt(notifications)
       IN  IF IsSome(max_seen)
           THEN \E io \in WriteIo :
                    /\ file' = write_last_seen_timestamp(file, PadWatermark(Unwrap(max_seen)),
                                                         io)
                    /\ written' = io
           ELSE file' = file /\ written' = "none"
    /\ pc' = "fetch"
    /\ UNCHANGED <<file0, last_seen, listing, notifications, idx, outcomes, log,
                   aggVars, clsVars, cacheVars, procVars, twVars, pgVars>>

\* process_notifications, line 37, and run, lines 46-57: the maximum, the pad, the write
Finish ==
    /\ pc = "process"
    /\ idx > Len(notifications)
    /\ LET max_seen == MaxUpdatedAt(notifications)
       IN  IF IsSome(max_seen)
           THEN \E io \in WriteIo :
                    /\ file' = write_last_seen_timestamp(file, PadWatermark(Unwrap(max_seen)),
                                                         io)
                    /\ written' = io
           ELSE file' = file /\ written' = "none"
    /\ pc' = "sleep"
    /\ UNCHANGED <<file0, last_seen, listing, notifications, idx, outcomes, log,
                   aggVars, clsVars, cacheVars, procVars, twVars, pgVars>>

\* sleep(POLL_INTERVAL_SECS), then the next turn of the loop: the page of
\* notifications is a local of process_notifications and is gone by then
Sleep ==
    /\ pc = "sleep"
    /\ pc' = "fetch"
    /\ notifications' = << >>
    /\ idx' = 1
    /\ outcomes' = << >>
    /\ log' = None
    /\ UNCHANGED <<file, file0, last_seen, listing, written,
                   aggVars, clsVars, cacheVars, procVars, twVars, pgVars>>

Next == FetchFails \/ FetchOk \/ ProcessOne \/ Finish \/ Sleep

Spec == Init /\ [][Next]_vars

\* a cycle is over: run sleeps, or a panic has unwound it
CycleOver == pc \in {"sleep", "panicked"}

\* the greatest updated_at on the listed page
ListedMax ==
    CHOOSE m \in {notifications[i].updated_at : i \in 1..Len(notifications)} :
        \A i \in 1..Len(notifications) : notifications[i].updated_at <= m

\* C1 (as claimed): the watermark readable once a cycle is over is not below the one
\* the cycle read at its start, whatever the listing returned.
C1_WatermarkNeverDecreases ==
    pc = "sleep" => OptLeq(last_seen, get_last_seen_timestamp(file))

\* C2: a cycle whose listing failed, and a cycle whose listing returned no
\* notification, call write_last_seen_timestamp not at all and leave last_seen.txt
\* as they found it.
C2_NoWriteWithoutNotifications ==
    (pc = "sleep" /\ (listing = "err" \/ notifications = << >>)) =>
        (written = "none" /\ file = file0)

\* C2 witness: a cycle whose listing failed ends with the watermark an earlier
\* cycle wrote still on file
C2_Witness ==
    /\ pc = "sleep"
    /\ listing = "err"
    /\ get_last_seen_timestamp(file) = Some(PadWatermark(MaxTime))
    /\ last_seen = Some(PadWatermark(MaxTime))

\* the other case of C2: a cycle with an empty page ends the same way
C2_WitnessEmptyPage ==
    /\ pc = "sleep"
    /\ listing = "ok"
    /\ notifications = << >>
    /\ last_seen = Some(PadWatermark(MaxTime))
    /\ get_last_seen_timestamp(file) = last_seen

\* C3: a cycle that listed at least one notification calls
\* write_last_seen_timestamp, and the watermark a successful write persists is the
\* greatest updated_at of the page plus one second, whatever became of the
\* notifications.
C3_WatermarkIsMaxPlusOne ==
    (pc = "sleep" /\ listing = "ok" /\ notifications # << >>) =>
        /\ written # "none"
        /\ written = "ok" => get_last_seen_timestamp(file) = Some(ListedMax + 1)

\* C3 witness: the notification with the greatest updated_at is the first of two
\* and its processing failed; the write succeeded
C3_Witness ==
    /\ pc = "sleep"
    /\ listing = "ok"
    /\ Len(notifications) = 2
    /\ notifications[1].updated_at > notifications[2].updated_at
    /\ outcomes = <<"err", "ok">>
    /\ written = "ok"
    /\ get_last_seen_timestamp(file) = Some(notifications[1].updated_at + 1)

\* C4 (as claimed): once a cycle that listed a page is over, every notification of
\* the page has been attempted, whatever failed on the way.
C4_EveryNotificationAttempted ==
    (CycleOver /\ listing = "ok") => Len(outcomes) = Len(notifications)

\* a PullRequest notification that names no pull request: no repository owner, no
\* subject URL, no segment after "pulls", or a segment that is no number
Unresolvable(notification) ==
    /\ notification.type = "PullRequest"
    /\ \/ notification.owner = None
       \/ notification.url \in {None, Some(UrlIssue42), Some(UrlPullsOnly),
                                Some(UrlPullAbc)}

\* the latest attempt of the cycle
LatestAttempt == Unwrap(log)

\* C14: a PullRequest notification that cannot be resolved fails with no upstream
\* fetch issued and is skipped (the loop goes on behind it); the updated_at of every
\* listed notification counts toward the watermark, so that the watermark a
\* successful write persists lies beyond each of them and a listing since that
\* watermark does not bring the notification back.
C14_UnresolvableSkippedAndCounted ==
    /\ (IsSome(log) /\ Unresolvable(LatestAttempt.notification)) =>
          /\ LatestAttempt.fetches = << >>
          /\ outcomes[LatestAttempt.index] = "err"
          /\ idx = LatestAttempt.index + 1
          /\ pc \in {"process", "sleep", "fetch"}
    /\ (pc = "sleep" /\ written = "ok") =>
          /\ get_last_seen_timestamp(file) = Some(ListedMax + 1)
          /\ \A i \in 1..Len(notifications) :
                 Unwrap(get_last_seen_timestamp(file)) > notifications[i].updated_at

\* C14 witness: of two notifications listed, the later one by updated_at is the last
\* attempted and has a subject URL without a "pulls" segment; the cycle ends with
\* the watermark one second past its updated_at
C14_Witness ==
    /\ pc = "sleep"
    /\ Len(notifications) = 2
    /\ IsSome(log)
    /\ LatestAttempt.index = 2
    /\ LatestAttempt.notification.url = Some(UrlIssue42)
    /\ LatestAttempt.notification.type = "PullRequest"
    /\ LatestAttempt.notification.owner # None
    /\ LatestAttempt.err = "could not find pull request number in URL"
    /\ notifications[2].updated_at > notifications[1].updated_at
    /\ written = "ok"
    /\ get_last_seen_timestamp(file) = Some(notifications[2].updated_at + 1)

\* last_seen.txt as the cycle found it holds no RFC 3339 timestamp: it is missing
\* or unreadable, empty, or text that does not parse
NoWatermarkOnFile == file0 \in {None, Some(<< >>), Some(<<"x">>)}

\* C16: when last_seen.txt is missing, unreadable, empty or does not parse, the
\* cycle reads "no watermark", lists without a since and goes on (to the processing
\* of the page, or to the sleep when the listing fails); a file that holds a
\* timestamp reads as that timestamp.
C16_GetFailsSoft ==
    (pc # "fetch") =>
        /\ listing \in {"ok", "err"}
        /\ NoWatermarkOnFile => last_seen = None
        /\ \A t \in 0..PadWatermark(MaxTime) :
               file0 = Some(Append(ToRfc3339(t), "\n")) => last_seen = Some(t)

\* C16 witness: the file held text that does not parse; the cycle listed a page
\* and processed it to the end
C16_Witness ==
    /\ pc = "sleep"
    /\ file0 = Some(<<"x">>)
    /\ last_seen = None
    /\ listing = "ok"
    /\ Len(outcomes) = 1

\* C17 (as claimed): a write_last_seen_timestamp that fails, at the creation of the
\* file or at the write, leaves the stored watermark as the cycle found it.
C17_FailedSetKeepsWatermark ==
    (pc = "sleep" /\ written \in {"create_fail", "write_fail"}) =>
        get_last_seen_timestamp(file) = get_last_seen_timestamp(file0)

\* C18: run is in one place at a time, and a cycle starts only from the sleep that
\* ends the cycle before it; the sleep is reached only from a failed listing or
\* from the end of the processing and the write; the processing only from a listing.
C18_CyclesNeverOverlap ==
    [][/\ pc \in {"fetch", "process", "sleep", "panicked"}
       /\ (pc' = "fetch" /\ pc # "fetch") => pc = "sleep"
       /\ (pc' = "sleep" /\ pc # "sleep") =>
              \/ pc = "fetch" /\ listing' = "err"
              \/ pc = "process" /\ idx > Len(notifications)
       /\ (pc' = "process" /\ pc # "process") => (pc = "fetch" /\ listing' = "ok")]_vars

\* C18 witness: a cycle has listed, processed, written and slept, and run is at the
\* start of the next cycle
C18_Witness ==
    /\ pc = "fetch"
    /\ listing = "ok"
    /\ written = "ok"
    /\ file0 = None
    /\ get_last_seen_timestamp(file) = Some(PadWatermark(MaxTime))

TransientErrors ==
    {"failed to fetch pull request details from GitHub",
     "failed to fetch pull request comments",
     "failed to fetch issue comments",
     "failed to fetch pull request reviews"}

\* C20 (as claimed): the watermark a cycle writes is not beyond a notification whose
\* aggregation failed on an upstream fetch, so that the next listing brings the
\* notification back and the fetch is tried again.
C20_TransientFailureRetried ==
    (pc = "sleep" /\ written = "ok" /\ IsSome(log)
        /\ LatestAttempt.err \in TransientErrors) =>
        OptLeq(get_last_seen_timestamp(file),
               Some(notifications[LatestAttempt.index].updated_at))

C25_ReadOnceWriteOnce ==
    [][/\ last_seen' # last_seen =>
              (pc = "fetch" /\ last_seen' = get_last_seen_timestamp(file))
       /\ pc = "fetch" /\ pc' # "fetch" => last_seen' = get_last_seen_timestamp(file)
       /\ IsSome(log') => Unwrap(log').since = last_seen'
       /\ (file' # file \/ (written' # written /\ written' # "none")) =>
              /\ pc = "process" /\ pc' = "sleep"
              /\ written = "none"
              /\ Len(outcomes) = Len(notifications)
              /\ \A i \in 1..Len(notifications) : outcomes[i] \in {"ok", "err"}]_vars

\* C25 witness: a cycle read a watermark, attempted both listed notifications with it
\* as their since, and then wrote the new watermark
C25_Witness ==
    /\ pc = "sleep"
    /\ written = "ok"
    /\ IsSome(last_seen)
    /\ Len(notifications) = 2
    /\ Len(outcomes) = 2
    /\ IsSome(log)
    /\ LatestAttempt.index = 2
    /\ LatestAttempt.since = last_seen
    /\ get_last_seen_timestamp(file) # last_seen

(***************************************************************************)
(* SpecCache: ensure_avatar calls against the cache directory, with the    *)
(* system clock advancing between them.                                    *)
(***************************************************************************)
\* how far the clock moves at once: a second, or a second less than MAX_CACHE_AGE
TickSteps == {1, MAX_CACHE_AGE - 1}

\* the (login, avatar_url) pairs the processor calls ensure_avatar with: a user of
\* the upstream, or the placeholder of an absent pull-request author
CacheCallers == {<<"alice", AuthorOf("alice").avatar_url>>, <<"unknown", "">>}

CacheInit ==
    /\ PollIdle /\ AggIdle /\ ClsIdle /\ ProcIdle /\ TwIdle /\ PgIdle
    /\ cachePc = "run"
    /\ cache = [k \in CacheKeys |-> NoEntry]
    /\ clock = 0
    /\ ticks = 0
    /\ lastCall = None
    /\ lastOf = [k \in CacheKeys |-> None]
    /\ inflight = [caller \in 1..MaxCallers |-> None]

\* time passes
Tick ==
    /\ cachePc = "run"
    /\ ticks < MaxTicks
    /\ \E d \in TickSteps : clock' = clock + d
    /\ ticks' = ticks + 1
    /\ UNCHANGED <<cachePc, cache, lastCall, lastOf, inflight, pollVars, aggVars, clsVars, procVars, twVars, pgVars>>

\* one call of AvatarCache::ensure_avatar
EnsureAvatar ==
    /\ cachePc = "run"
    /\ \E caller \in CacheCallers : \E net \in NetOutcomes :
         LET login == caller[1]
             r == ensure_avatar(cache[login], clock, login, caller[2], net)
             call == [at |-> clock, fetches |-> r.fetches, ok |-> r.ok]
         IN  /\ cache' = [cache EXCEPT ![login] = r.entry]
             /\ lastCall' = Some([login |-> login, at |-> clock, before |-> cache[login],
                                  after |-> r.entry, fetches |-> r.fetches, ok |-> r.ok,
                                  uri |-> r.uri, prev |-> lastOf[login]])
             /\ lastOf' = [lastOf EXCEPT ![login] = Some(call)]
    /\ UNCHANGED <<cachePc, clock, ticks, inflight, pollVars, aggVars, clsVars, procVars, twVars, pgVars>>

CacheNext == Tick \/ EnsureAvatar

SpecCache == CacheInit /\ [][CacheNext]_vars

\* the latest call, and the call before it for the same login
LatestCall == Unwrap(lastCall)
HasTwoCalls == IsSome(lastCall) /\ IsSome(LatestCall.prev)
FirstOfTwo == Unwrap(LatestCall.prev)

\* C9: a call that finds the login's entry younger than MAX_CACHE_AGE returns the
\* entry's URI and fetches nothing; and of two successive calls for one login, the
\* second within MAX_CACHE_AGE of an entry the first left fresh, at most one fetches.
C9_FreshEntryNoFetch ==
    /\ IsSome(lastCall) =>
          ((LatestCall.before.exists
              /\ LatestCall.at - LatestCall.before.mtime < MAX_CACHE_AGE)
             => (LatestCall.fetches = 0 /\ LatestCall.ok
                   /\ LatestCall.uri = get_avatar_local_uri(LatestCall.login)
                   /\ LatestCall.after = LatestCall.before))
    /\ (HasTwoCalls
          /\ LatestCall.before.exists
          /\ FirstOfTwo.at - LatestCall.before.mtime < MAX_CACHE_AGE
          /\ LatestCall.at - FirstOfTwo.at < MAX_CACHE_AGE)
         => FirstOfTwo.fetches + LatestCall.fetches <= 1

\* C9 witness: a first call downloaded the avatar; the second call for the login,
\* one second short of MAX_CACHE_AGE later, was served from the cache
C9_Witness ==
    /\ HasTwoCalls
    /\ FirstOfTwo.fetches = 1
    /\ FirstOfTwo.ok
    /\ LatestCall.at - FirstOfTwo.at = MAX_CACHE_AGE - 1
    /\ LatestCall.fetches = 0
    /\ LatestCall.ok

\* C10: a call that finds the login's entry MAX_CACHE_AGE old or older fetches
\* exactly once, and when it succeeds the entry is a whole image written at the
\* time of the call, so that it is fresh again.
C10_StaleEntryRefetched ==
    IsSome(lastCall) =>
        ((LatestCall.before.exists
            /\ LatestCall.at - LatestCall.before.mtime >= MAX_CACHE_AGE)
           => /\ LatestCall.fetches = 1
              /\ LatestCall.ok =>
                    /\ LatestCall.after
                         = [exists |-> TRUE, mtime |-> LatestCall.at, complete |-> TRUE]
                    /\ IsFresh(LatestCall.after, LatestCall.at))

\* C10 witness: the entry was exactly MAX_CACHE_AGE old and the call replaced it
C10_Witness ==
    /\ IsSome(lastCall)
    /\ LatestCall.before.exists
    /\ LatestCall.before.complete
    /\ LatestCall.at - LatestCall.before.mtime = MAX_CACHE_AGE
    /\ LatestCall.fetches = 1
    /\ LatestCall.ok
    /\ LatestCall.after.mtime = LatestCall.at

\* C11 (as claimed): the file of a login is never a partial image (what is there is
\* a whole image), and an ensure_avatar call that fails leaves the entry it found
\* unchanged, so that no truncated file is served as a fresh hit afterwards.
C11_NeverPartiallyWritten ==
    /\ \A k \in CacheKeys : cache[k].exists => cache[k].complete
    /\ IsSome(lastCall) =>
          /\ ~LatestCall.ok => LatestCall.after = LatestCall.before
          /\ (LatestCall.ok /\ LatestCall.fetches = 0) => LatestCall.before.complete

(***************************************************************************)
(* SpecProc: one notification through process_notification, with the      *)
(* upstream answers, the cache directory and the network drawn.            *)
(***************************************************************************)
\* the pull-request snapshots of the scenario: open or merged, any author or none
ScenarioPullRequests ==
    {[merged |-> m, draft |-> Some(FALSE), state |-> Some("open"), user |-> u] :
        m \in {Some(FALSE), Some(TRUE)},
        u \in {None} \cup {Some(AuthorOf(l)) : l \in Logins}}

\* pull request 42 with one issue comment by alice a second after t and one approved
\* review without a body by bob two seconds after t
ScenarioUpstream(t, pull_request) ==
    [pr |-> Ok(pull_request),
     rc |-> Ok(<< >>),
     ic |-> Ok(<<[created_at |-> t + 1, user |-> AuthorOf("alice"),
                  body |-> Some(BodyShort)]>>),
     rv |-> Ok(<<[submitted_at |-> Some(t + 2), user |-> Some(AuthorOf("bob")),
                  body |-> None, state |-> Some("Approved")]>>)]

\* the watermarks that leave room for t + 2
ScenarioTimes == {t \in Times : t + 2 <= MaxTime}

ProcUpstreams ==
    PollUpstreams
        \cup {ScenarioUpstream(t, p) : t \in ScenarioTimes, p \in ScenarioPullRequests}

\* the network, login by login: the download works or fails
ProcNets == [CacheKeys -> {"ok", "fetch_fail"}]

ProcInit ==
    /\ PollIdle /\ AggIdle /\ ClsIdle /\ CacheIdle /\ TwIdle /\ PgIdle
    /\ procPc = "input"
    /\ procOut = << >>
    /\ \/ \E n \in PlainNotifications :
            procIn = [notification |-> n, since |-> None, up |-> [pr |-> Err("net")],
                      dir |-> [k \in CacheKeys |-> NoEntry],
                      net |-> [k \in CacheKeys |-> "ok"]]
       \/ \E s \in {None} \cup {Some(t) : t \in ScenarioTimes} :
            \E u \in ProcUpstreams : \E d \in PollDirs : \E x \in ProcNets :
              procIn = [notification |-> PullNotification, since |-> s, up |-> u,
                        dir |-> d, net |-> x]

\* one call of process_notification
Process ==
    /\ procPc = "input"
    /\ procOut' = process_notification(procIn.notification, procIn.since, procIn.up,
                                       procIn.dir, 0, procIn.net)
    /\ procPc' = "done"
    /\ UNCHANGED <<procIn, pollVars, aggVars, clsVars, cacheVars, twVars, pgVars>>

ProcNext == Process

SpecProc == ProcInit /\ [][ProcNext]_vars

\* the call aggregated the pull request's details
ProcAggregated == procPc = "done" /\ procOut.pr # None /\ procOut.pr.ok

\* the users whose avatars the details need: the author, then each comment's user
ProcUsers == <<procOut.pr.val.author>> \o CommentUsers(procOut.pr.val.comments)

\* ensure_avatar fails for this user on the directory and the network drawn
ProcAvatarFails(u) ==
    ~ensure_avatar(procIn.dir[u.login], 0, u.login, u.avatar_url, procIn.net[u.login]).ok

\* the logins with a file in a cache directory
ProcEntries(dir) == {k \in CacheKeys : dir[k].exists}

\* C12 (as claimed): when the avatar of the author or of a commenter cannot be
\* resolved, the notification is still handed to the notifier and the avatars of
\* the other users are still resolved.
C12_AvatarFailureDoesNotAbort ==
    (ProcAggregated /\ \E i \in 1..Len(ProcUsers) : ProcAvatarFails(ProcUsers[i])) =>
        /\ procOut.err # "avatar"
        /\ \A i \in 1..Len(ProcUsers) :
               ~ProcAvatarFails(ProcUsers[i]) => procOut.dir[ProcUsers[i].login].exists

\* the scenario: watermark t, pull request 42 with alice's issue comment at t + 1 and
\* bob's approved review at t + 2, nothing cached yet, every download working
ProcScenario ==
    /\ procPc = "done"
    /\ procIn.notification = PullNotification
    /\ procIn.since # None
    /\ \E p \in ScenarioPullRequests :
           procIn.up = ScenarioUpstream(Unwrap(procIn.since), p)
    /\ procIn.dir = [k \in CacheKeys |-> NoEntry]
    /\ \A k \in CacheKeys : procIn.net[k] = "ok"

\* [Comment(alice, body, t + 1), ReviewApproved(bob, "", t + 2)]
ScenarioComments ==
    <<[created_at |-> Some(Unwrap(procIn.since) + 1),
       user |-> Some([login |-> "alice", avatar_url |-> "https"]),
       action |-> "Comment", body |-> BodyShort],
      [created_at |-> Some(Unwrap(procIn.since) + 2),
       user |-> Some([login |-> "bob", avatar_url |-> "https"]),
       action |-> "ReviewApproved", body |-> << >>]>>

\* the comments and the state the scenario is to give
ScenarioDetails ==
    /\ procOut.pr.ok
    /\ procOut.pr.val.comments = ScenarioComments
    /\ procOut.pr.val.state
         = (IF procIn.up.pr.val.merged = Some(TRUE) THEN "Merged" ELSE "Open")

\* C15 (as claimed): in the scenario the aggregated comments are alice's comment and
\* bob's approved review in that order, the state is the snapshot's, and processing
\* creates exactly two avatar cache entries.
C15_ScenarioTwoEntries ==
    ProcScenario =>
        /\ ScenarioDetails
        /\ Cardinality(ProcEntries(procOut.dir)) = 2

\* C15 (amended): in the scenario, for a pull request with an author, the comments
\* and the state are as claimed and processing creates one cache entry for each of
\* the author, alice and bob: two when the author is alice or bob, three otherwise.
C15_ScenarioEntriesPerUser ==
    (ProcScenario /\ IsSome(procIn.up.pr.val.user)) =>
        /\ ScenarioDetails
        /\ ProcEntries(procOut.dir)
             = {Unwrap(procIn.up.pr.val.user).login, "alice", "bob"}
        /\ \A k \in ProcEntries(procOut.dir) : procOut.dir[k].complete
        /\ procOut.status = "ok"

\* C15 witness: the scenario with alice as the author leaves exactly two entries
C15_Witness ==
    /\ ProcScenario
    /\ procIn.up.pr.val.user = Some(AuthorOf("alice"))
    /\ procOut.pr.val.comments = ScenarioComments
    /\ ProcEntries(procOut.dir) = {"alice", "bob"}

\* C21 (as claimed): a pull-request notification whose aggregation leaves no comment
\* newer than the watermark still gives details with an empty comment list, and the
\* notification is handed to the notifier, once, with no comment line in its body.
C21_NoCommentsStillNotified ==
    (procPc = "done" /\ procIn.notification = PullNotification
        /\ procIn.up.pr.ok /\ procIn.up.rc.ok /\ procIn.up.ic.ok /\ procIn.up.rv.ok
        /\ get_pr_details(procIn.notification, procIn.since, procIn.up).val.comments
             = << >>) =>
        /\ procOut.pr.ok
        /\ procOut.pr.val.comments = << >>
        /\ procOut.status = "ok"
        /\ IsSome(procOut.shown)
        /\ Unwrap(procOut.shown).entries = << >>

\* C22 (as claimed): every aggregated comment, one by the signed-in user and one
\* without an author included, gives one line of the body handed to the notifier.
C22_OwnCommentsSurfaced ==
    (ProcAggregated /\ IsSome(procOut.shown)) =>
        Len(Unwrap(procOut.shown).entries) = Len(procOut.pr.val.comments)

\* C29 (as claimed): truncate_string fails for no comment body: a body of at most
\* 100 bytes comes back as it is, a longer one as its first 100 bytes and the
\* ellipsis; and no call of process_notification ends in a panic.
C29_TruncateNeverFails ==
    /\ procPc = "done" => procOut.status # "panic"
    /\ ProcAggregated =>
          \A i \in 1..Len(procOut.pr.val.comments) :
              LET body == procOut.pr.val.comments[i].body
                  text == truncate_string(body)
              IN  /\ text.ok
                  /\ ByteLen(body) <= MAX_LENGTH => text.val = body
                  /\ ByteLen(body) > MAX_LENGTH => ByteLen(text.val) = MAX_LENGTH + 3

\* C30: every pull-request notification handed to the notifier carries a sound: the
\* Approved sound when one of the aggregated comments is an approving review, else
\* the Comment sound, an empty comment list included.
C30_SoundFollowsApproval ==
    (ProcAggregated /\ IsSome(procOut.shown)) =>
        LET comments == procOut.pr.val.comments
            sound == Unwrap(procOut.shown).sound
        IN  /\ sound \in {Some("Approved"), Some("Comment")}
            /\ sound = Some("Approved") <=>
                   Cardinality({i \in 1..Len(comments) :
                                   comments[i].action = "ReviewApproved"}) >= 1

\* C30 witness: an approving review ahead of a later plain comment gave the Approved
\* sound
C30_Witness ==
    /\ ProcAggregated
    /\ IsSome(procOut.shown)
    /\ Len(procOut.pr.val.comments) >= 2
    /\ procOut.pr.val.comments[1].action = "ReviewApproved"
    /\ procOut.pr.val.comments[Len(procOut.pr.val.comments)].action = "Comment"
    /\ Unwrap(procOut.shown).sound = Some("Approved")

\* C30 witness for a notification without comments: the Comment sound
C30_WitnessNoComments ==
    /\ ProcAggregated
    /\ IsSome(procOut.shown)
    /\ procOut.pr.val.comments = << >>
    /\ Unwrap(procOut.shown).sound = Some("Comment")

(***************************************************************************)
(* SpecTwice: the cycle of run, run twice against an upstream that answers *)
(* the same both times; the second cycle reads the watermark the first     *)
(* left in last_seen.txt.                                                  *)
(***************************************************************************)
\* the upstream's answers for the pull request of the first notification: a failing
\* fetch, or at most one review comment, one issue comment and one review
TwUpstreams ==
    AggFailures
        \cup {[pr |-> Ok(AggPullRequest), rc |-> Ok(rc), ic |-> Ok(ic), rv |-> Ok(rv)] :
                rc \in SeqsUpTo({[created_at |-> t, user |-> Some(AuthorOf("alice")),
                                  body |-> BodyShort] : t \in Times}, 1),
                ic \in SeqsUpTo(PollIssueComments, 1),
                rv \in SeqsUpTo(PollReviews, 1)}

\* a listed notification with what the upstream holds for it
TwPullItems ==
    {[updated_at |-> t, notification |-> PullNotification, up |-> u] :
        t \in Times, u \in TwUpstreams}
TwPlainItems ==
    {[updated_at |-> t, notification |-> n, up |-> [pr |-> Err("net")]] :
        t \in Times,
        n \in {[type |-> "Issue", owner |-> Some("o"), repo |-> "r",
                url |-> Some(UrlIssue42)],
               [type |-> "PullRequest", owner |-> Some("o"), repo |-> "r",
                url |-> Some(UrlIssue42)]}}

\* the listed page: a pull-request notification, then notifications without fetches
TwWorlds ==
    {<<a>> \o rest : a \in TwPullItems, rest \in SeqsUpTo(TwPlainItems, MaxNotifs - 1)}

TwInit ==
    /\ PollIdle /\ AggIdle /\ ClsIdle /\ CacheIdle /\ ProcIdle /\ PgIdle
    /\ twPc = "run"
    /\ twWorld \in TwWorlds
    /\ twFile \in InitFiles
    /\ twRuns = << >>

\* for each since and each item, what process_notification does with it (nothing
\* cached yet, every download working)
TwAttempts ==
    [since \in SinceValues |->
        [item \in TwPullItems \cup TwPlainItems |->
            process_notification(item.notification, since, item.up,
                                 [k \in CacheKeys |-> NoEntry], 0,
                                 [k \in CacheKeys |-> "ok"])]]

\* process_notifications over the page: the result of each notification
TwResults(since) == [i \in 1..Len(twWorld) |-> TwAttempts[since][twWorld[i]]]

\* the comments aggregated for each notification: None where there are none to
\* speak of (another subject type, a failed aggregation, a notification behind a panic)
TwLists(since) ==
    LET results == TwResults(since)
        Reached(i) == \A j \in 1..(i - 1) : results[j].status # "panic"
    IN  [i \in 1..Len(twWorld) |->
            IF Reached(i) /\ results[i].pr # None /\ results[i].pr.ok
            THEN Some(results[i].pr.val.comments)
            ELSE None]

\* one whole cycle of run (lines 33-57) on the page twWorld
TwCycle ==
    /\ twPc = "run"
    /\ Len(twRuns) < 2
    /\ LET since == get_last_seen_timestamp(twFile)
           results == TwResults(since)
           panicked == \E i \in 1..Len(twWorld) : results[i].status = "panic"
       IN  \E io \in WriteIo :
             LET after == IF panicked THEN twFile
                          ELSE write_last_seen_timestamp(
                                   twFile, PadWatermark(Unwrap(MaxUpdatedAt(twWorld))), io)
             IN  /\ twFile' = after
                 /\ twRuns' = Append(twRuns,
                        [since |-> since, lists |-> TwLists(since),
                         written |-> IF panicked THEN "none" ELSE io,
                         after |-> get_last_seen_timestamp(after)])
    /\ UNCHANGED <<twPc, twWorld, pollVars, aggVars, clsVars, cacheVars, procVars, pgVars>>

TwNext == TwCycle

SpecTwice == TwInit /\ [][TwNext]_vars

\* the cycle was run twice and the first run persisted a watermark
TwRanTwice == Len(twRuns) = 2 /\ twRuns[1].written = "ok"

\* C13 (as claimed): when the same cycle is run twice, the second with the watermark
\* the first persisted, every comment list the second run aggregates is empty and
\* the watermark after the second run is the one after the first.
C13_SecondRunEmpty ==
    TwRanTwice =>
        /\ \A i \in 1..Len(twWorld) :
               IsSome(twRuns[2].lists[i]) => Unwrap(twRuns[2].lists[i]) = << >>
        /\ twRuns[2].after = twRuns[1].after

(***************************************************************************)
(* SpecPages: two cycles of run against an upstream that holds more        *)
(* notifications than one page of its listing takes.  The notifications    *)
(* are of a kind whose processing neither fails nor panics, and their      *)
(* updated_at does not change between the cycles.                          *)
(***************************************************************************)
\* the positions in held of the notifications a listing since `since` is about: the
\* upstream leaves out what was updated before since
UpstreamListing(held, since) ==
    SelectSeq([i \in 1..Len(held) |-> i],
              LAMBDA i : since = None \/ held[i].updated_at >= Unwrap(since))

\* req.send(): the first page of the listing, and no request for the pages behind it
FirstPage(listing_all) ==
    IF Len(listing_all) > MaxNotifs THEN SubSeq(listing_all, 1, MaxNotifs) ELSE listing_all

PgInit ==
    /\ PollIdle /\ AggIdle /\ ClsIdle /\ CacheIdle /\ ProcIdle /\ TwIdle
    /\ pgPc = "run"
    /\ pgHeld \in SeqsUpTo(NotificationItems, MaxNotifs + 1)
    /\ pgFile \in InitFiles
    /\ pgRuns = << >>

\* one whole cycle of run (lines 33-57): read, list, attempt the page, write
PgCycle ==
    /\ pgPc = "run"
    /\ Len(pgRuns) < 2
    /\ LET since == get_last_seen_timestamp(pgFile)
           listed == FirstPage(UpstreamListing(pgHeld, since))
           max_seen == MaxUpdatedAt([k \in 1..Len(listed) |-> pgHeld[listed[k]]])
       IN  \E io \in WriteIo :
             LET after == IF IsSome(max_seen)
                          THEN write_last_seen_timestamp(
                                   pgFile, PadWatermark(Unwrap(max_seen)), io)
                          ELSE pgFile
             IN  /\ pgFile' = after
                 /\ pgRuns' = Append(pgRuns,
                        [since |-> since,
                         listed |-> {listed[k] : k \in 1..Len(listed)},
                         written |-> IF IsSome(max_seen) THEN io ELSE "none",
                         after |-> get_last_seen_timestamp(after)])
    /\ UNCHANGED <<pgPc, pgHeld, pollVars, aggVars, clsVars, cacheVars, procVars, twVars>>

PgNext == PgCycle

SpecPages == PgInit /\ [][PgNext]_vars

\* C26: with an upstream that lists what was updated at or after since, a
\* notification listed in one cycle is not listed in the next when the first
\* cycle's write succeeded (its updated_at being the same in both).
C26_PadPreventsRefetch ==
    (Len(pgRuns) = 2 /\ pgRuns[1].written = "ok") =>
        pgRuns[1].listed \cap pgRuns[2].listed = {}

\* C26 witness: the first cycle listed a page and wrote the watermark one second
\* past its newest notification; the second cycle listed a newer notification the
\* first page had not held, and none of the first
C26_Witness ==
    /\ Len(pgRuns) = 2
    /\ pgRuns[1].written = "ok"
    /\ pgRuns[1].listed # {}
    /\ \E i \in pgRuns[1].listed : Some(pgHeld[i].updated_at + 1) = pgRuns[2].since
    /\ pgRuns[2].listed # {}
    /\ pgRuns[1].listed \cap pgRuns[2].listed = {}

\* C28 (as claimed): a notification the upstream holds with updated_at later than
\* the watermark a cycle read has been attempted, in that cycle or an earlier one,
\* when the watermark the cycle persists lies beyond its updated_at; also when the
\* listing takes more than one page.
C28_NoSilentDrop ==
    \A r \in 1..Len(pgRuns) : \A i \in 1..Len(pgHeld) :
        (/\ pgRuns[r].since = None \/ pgHeld[i].updated_at > Unwrap(pgRuns[r].since)
         /\ pgRuns[r].written = "ok"
         /\ Unwrap(pgRuns[r].after) > pgHeld[i].updated_at) =>
            \E q \in 1..r : i \in pgRuns[q].listed

(***************************************************************************)
(* SpecFlight: ensure_avatar called by callers that do not wait for one    *)
(* another.  ensure_avatar is a pub async fn on &self of a struct without  *)
(* fields and takes no lock, so that a call may start while another awaits *)
(* its download.  The clock stands still at MAX_CACHE_AGE.                 *)
(***************************************************************************)
FlightInit ==
    /\ PollIdle /\ AggIdle /\ ClsIdle /\ ProcIdle /\ TwIdle /\ PgIdle
    /\ cachePc = "flight"
    /\ cache \in [CacheKeys -> {NoEntry, [exists |-> TRUE, mtime |-> 0, complete |-> TRUE]}]
    /\ cache["unknown"] = NoEntry /\ cache["carol"] = NoEntry
    /\ clock = MAX_CACHE_AGE
    /\ ticks = 0
    /\ lastCall = None
    /\ lastOf = [k \in CacheKeys |-> None]
    /\ inflight = [caller \in 1..MaxCallers |-> None]

\* ensure_avatar, lines 29-44, and download_avatar up to the await of reqwest::get
\* (line 54): a caller that finds no fresh entry starts a download
BeginDownload ==
    /\ cachePc = "flight"
    /\ \E caller \in DOMAIN inflight : \E login \in {"alice", "bob"} :
         /\ inflight[caller] = None
         /\ ~IsFresh(cache[login], clock)
         /\ UrlParses(AuthorOf(login).avatar_url)
         /\ inflight' = [inflight EXCEPT ![caller] = Some(login)]
    /\ UNCHANGED <<cachePc, cache, clock, ticks, lastCall, lastOf, pollVars, aggVars,
                   clsVars, procVars, twVars, pgVars>>

\* download_avatar, lines 54-69: the response arrives, the image is decoded and the
\* file of the login created and written
FinishDownload ==
    /\ cachePc = "flight"
    /\ \E caller \in DOMAIN inflight : \E net \in NetOutcomes :
         /\ inflight[caller] # None
         /\ LET login == Unwrap(inflight[caller])
                d == download_avatar(cache[login], clock, AuthorOf(login).avatar_url, net)
            IN  cache' = [cache EXCEPT ![login] = d.entry]
         /\ inflight' = [inflight EXCEPT ![caller] = None]
    /\ UNCHANGED <<cachePc, clock, ticks, lastCall, lastOf, pollVars, aggVars, clsVars,
                   procVars, twVars, pgVars>>

FlightNext == BeginDownload \/ FinishDownload

SpecFlight == FlightInit /\ [][FlightNext]_vars

====
